---- MODULE Spec2Model ----
(***************************************************************************)
(* Model of the comment-interaction pipeline of loop_agent_runner.py:      *)
(* run_comment_interaction creates a session in the process-wide           *)
(* session_service, drives the SequentialAgent (StateSetup,                *)
(* CommentAnalyzer, CommentResponder) through a Runner, reads the final    *)
(* session state and prepares the result dictionary.  Several invocations  *)
(* run concurrently over the one shared session_service.                   *)
(*                                                                         *)
(* The ADK library (Runner, SequentialAgent, LlmAgent,                     *)
(* InMemorySessionService) and the generation backend are the environment: *)
(* a stage either returns a text, which the LlmAgent commits under its     *)
(* output_key before the final-response event is yielded, or raises; the   *)
(* session service calls may fail.  Those outcomes are nondeterministic.   *)
(***************************************************************************)
EXTENDS Integers, Sequences, FiniteSets, TLC

\* ------------------------------------------------------------------ bounds
NumInv == 2

Invocations == 1..NumInv
SessionIds == 1..NumInv

\* the request (comment, context, tone) of each invocation: the comments are
\* pairwise distinct, the tones alternate
Tones == <<"happy", "strict">>
Request(i) == <<<<"comment", i>>, "Post about X", Tones[((i - 1) % Len(Tones)) + 1]>>

\* ------------------------------------------------- module-level definitions
APP_NAME == "comment_responder_app"
USER_ID == "web_user_01"

\* the sub-agents with the analyzer left out
SubAgentsNoAnalyzer == <<"StateSetup", "CommentResponder">>

\* the sub-agents listed with the analyzer ahead of the setup stage
SubAgentsAnalyzerFirst == <<"CommentAnalyzer", "StateSetup", "CommentResponder">>

SubAgents == <<"StateSetup", "CommentAnalyzer", "CommentResponder">>

OutputKey(agent) ==
    CASE agent = "StateSetup" -> "initial_data"
      [] agent = "CommentAnalyzer" -> "analysis"
      [] agent = "CommentResponder" -> "final_response"

\* the shapes of text a generation call can return for a stage
Forms(agent) ==
    CASE agent = "StateSetup" -> {"json", "malformed"}
      [] agent = "CommentAnalyzer" -> {"text"}
      [] agent = "CommentResponder" -> {"text", "empty"}

\* ------------------------------------------------------------------ values
\* Python None, as a final_response / final_response_text value
None == [by |-> "None", form |-> "None", origin |-> {}]

\* a dict with no keys
EmptyDict == [k \in {} |-> None]

\* dict.get(key): the value, or None when the key is absent
DictGet(d, key) == IF key \in DOMAIN d THEN d[key] ELSE None

\* Python truthiness of an optional string: None and '' are falsy
Truthy(v) == v # None /\ v.form # "empty"

NoError == [msg |-> "None", cause |-> <<"None", "None">>]
NoExc == <<"None", "None">>

\* initial_message_data and its serialisation
InitialMessageData(comment, context, tone) ==
    [comment |-> comment, context |-> context, tone |-> tone]

JsonDumps(d) == <<"json", d.comment, d.context, d.tone>>

\* a key that leaves the session identifier out
SessionKeyPerUser(app_name, user_id, session_id) == <<app_name, user_id, 1>>

\* the key under which the session service files a session
SessionKey(app_name, user_id, session_id) == <<app_name, user_id, session_id>>

StoreKeys == {SessionKey(APP_NAME, USER_ID, s) : s \in SessionIds}

NoSession == [exists |-> FALSE, state |-> EmptyDict, messages |-> {}]
NewSession == [exists |-> TRUE, state |-> EmptyDict, messages |-> {}]

\* session_service.get_session(...) when the service answers: the session's
\* state, or no session
GetSession(sessions, app_name, user_id, session_id) ==
    LET session == sessions[SessionKey(app_name, user_id, session_id)]
    IN IF session.exists
         THEN [found |-> TRUE, state |-> session.state]
         ELSE [found |-> FALSE, state |-> EmptyDict]

\* a session identifier that is the same for every invocation
Uuid4Fixed(used) == {1}

\* uuid.uuid4(): an identifier that was never generated before (identifiers
\* are opaque, so the least unused one stands for any fresh one)
Uuid4(used) == {s \in SessionIds \ used : \A t \in SessionIds \ used : s <= t}

\* what a generation call of a stage returns: a text of the given form that
\* derives from everything the stage was shown (the session's user messages
\* and the values accumulated in the session state)
Generate(agent, session, form) ==
    [by |-> agent, form |-> form,
     origin |-> session.messages \cup
                UNION {session.state[k].origin : k \in DOMAIN session.state}]

\* the events one successful stage yields: optionally a non-final event,
\* then the final-response event carrying the stage's text
StageEvents(text, streamed) ==
    (IF streamed
       THEN <<[final |-> FALSE, text |-> [text EXCEPT !.form = "partial"]]>>
       ELSE <<>>)
    \o <<[final |-> TRUE, text |-> text]>>

\* the event loop: keep the text of the last final-response event
RECURSIVE ProcessEvents(_, _)
ProcessEvents(frt, events) ==
    IF events = <<>> THEN frt
    ELSE ProcessEvents(IF Head(events).final THEN Head(events).text ELSE frt,
                       Tail(events))

\* the handlers with create_session inside the try around the run
ExceptTargetCreateInsideTry(site) ==
    CASE site = "create_session" -> "except"
      [] site = "run" -> "except"
      [] site = "get_session" -> "except"
      [] site = "readback" -> "readback_except"

\* the handlers without the try around runner.run and the state read
ExceptTargetNoOuterTry(site) ==
    CASE site = "create_session" -> "create_except"
      [] site = "run" -> "propagate"
      [] site = "get_session" -> "propagate"
      [] site = "readback" -> "readback_except"

\* the handlers without the inner try around the read-back
ExceptTargetNoInnerTry(site) ==
    CASE site = "create_session" -> "create_except"
      [] site = "run" -> "except"
      [] site = "get_session" -> "except"
      [] site = "readback" -> "propagate"

\* which handler an exception raised at a call site reaches
ExceptTarget(site) ==
    CASE site = "create_session" -> "create_except"
      [] site = "run" -> "except"
      [] site = "get_session" -> "except"
      [] site = "readback" -> "readback_except"

\* the result taking the response from the analyzer's key
PrepareResultFromAnalysis(session_id, final_state_dict, final_response_text, error_message) ==
    LET result == [session_id |-> session_id,
                   final_state |-> final_state_dict,
                   final_response |-> DictGet(final_state_dict, "analysis"),
                   error |-> error_message]
    IN IF ~Truthy(result.final_response) /\ Truthy(final_response_text)
         THEN [result EXCEPT !.final_response = final_response_text]
         ELSE result

\* the result that drops the state that was read
PrepareResultNoState(session_id, final_state_dict, final_response_text, error_message) ==
    LET result == [session_id |-> session_id,
                   final_state |-> EmptyDict,
                   final_response |-> DictGet(final_state_dict, "final_response"),
                   error |-> error_message]
    IN IF ~Truthy(result.final_response) /\ Truthy(final_response_text)
         THEN [result EXCEPT !.final_response = final_response_text]
         ELSE result

\* the result without the fallback to the event text
PrepareResultNoFallback(session_id, final_state_dict, final_response_text, error_message) ==
    [session_id |-> session_id,
     final_state |-> final_state_dict,
     final_response |-> DictGet(final_state_dict, "final_response"),
     error |-> error_message]

\* the result dictionary and the fallback to the event text
PrepareResult(session_id, final_state_dict, final_response_text, error_message) ==
    LET result == [session_id |-> session_id,
                   final_state |-> final_state_dict,
                   final_response |-> DictGet(final_state_dict, "final_response"),
                   error |-> error_message]
    IN IF ~Truthy(result.final_response) /\ Truthy(final_response_text)
         THEN [result EXCEPT !.final_response = final_response_text]
         ELSE result

\* ----------------------------------------------------------------- main.py
\* the slugs of mock_posts, and the slugs the requests address
Slugs == {"tech-trends-2024", "mindful-coding", "climate-action-now"}
RequestSlugs == {"tech-trends-2024", "climate-action-now", "no-such-post"}

\* f"c{n}"
CommentId(n) == <<"c", n>>

\* agent_response: None, or AgentResponse(tone, text)
NoAgentResponse == [tone |-> "None", text |-> None]
AgentResponse(tone, text) == [tone |-> tone, text |-> text]

Comment(id, commenter, text, agent_response) ==
    [id |-> id, commenter |-> commenter, text |-> text,
     agent_response |-> agent_response]

NoComment == Comment(CommentId(0), "None", <<"comment", 0>>, NoAgentResponse)

\* the comments mock_posts starts with
InitialComments ==
    [slug \in Slugs |->
        CASE slug = "tech-trends-2024" ->
                <<Comment(CommentId(1), "AI_fan", <<"seeded", 1>>, NoAgentResponse),
                  Comment(CommentId(2), "Skeptic", <<"seeded", 2>>, NoAgentResponse)>>
          [] slug = "mindful-coding" ->
                <<Comment(CommentId(3), "DevDude", <<"seeded", 3>>, NoAgentResponse)>>
          [] slug = "climate-action-now" -> <<>>]

InitialNextCommentId == 4

\* post_context = f"Blog Post Title: {post['title']}\n\n{post['content']}"
PostContext(slug) == <<"Blog Post Title", slug>>

\* the response chosen by looking at final_response before the error
AgentResponseForResponseFirst(agent_result, tone) ==
    IF Truthy(DictGet(agent_result, "final_response"))
      THEN AgentResponse(tone, agent_result.final_response)
      ELSE NoAgentResponse

\* the response add_comment attaches, deciding on the result's error first
\* and on its final_response second
AgentResponseFor(agent_result, tone) ==
    IF DictGet(agent_result, "error") # None /\ agent_result.error # NoError
      THEN NoAgentResponse
      ELSE IF Truthy(DictGet(agent_result, "final_response"))
             THEN AgentResponse(tone, agent_result.final_response)
             ELSE NoAgentResponse

\* ------------------------------------------------------------------- state
VARIABLES
    input,                \* the (comment, context, tone) of each invocation
    pc,                   \* each invocation's position in run_comment_interaction
    used_ids,             \* identifiers uuid4 has handed out
    store,                \* session_service: the shared session registry
    session_id,           \* locals of each invocation
    next_agent,           \* index in SubAgents of the stage to run next
    final_response_text,
    error_message,
    final_state_dict,
    exc,                  \* the exception `e` being handled
    result,               \* the value returned to the caller
    stage_status,         \* history: "notrun" / "ok" / "raised" per stage
    stage_input,          \* history: the session state each stage started on
    read_outcome,         \* history: outcome of the get_session after the run
    readback_outcome,     \* history: outcome of the get_session in the handler
    mock_posts,           \* main.py: the comments stored for each post
    next_comment_id,      \* main.py: the counter for new comment ids
    handler,              \* each add_comment request's position in the handler
    post_slug,            \* the post each add_comment request addresses
    new_comment_data      \* the comment each add_comment request built

vars == <<input, pc, used_ids, store, session_id, next_agent,
          final_response_text, error_message, final_state_dict, exc, result,
          stage_status, stage_input, read_outcome, readback_outcome,
          mock_posts, next_comment_id, handler, post_slug, new_comment_data>>

\* the state of main.py, which run_comment_interaction never touches
server == <<mock_posts, next_comment_id, handler, post_slug, new_comment_data>>

locals == <<final_response_text, error_message, final_state_dict, exc>>
history == <<stage_status, stage_input, read_outcome, readback_outcome>>

Init ==
    /\ input = [i \in Invocations |->
                  InitialMessageData(Request(i)[1], Request(i)[2], Request(i)[3])]
    /\ pc = [i \in Invocations |-> "start"]
    /\ used_ids = {}
    /\ store = [k \in StoreKeys |-> NoSession]
    /\ session_id = [i \in Invocations |-> 0]
    /\ next_agent = [i \in Invocations |-> 1]
    /\ final_response_text = [i \in Invocations |-> None]
    /\ error_message = [i \in Invocations |-> NoError]
    /\ final_state_dict = [i \in Invocations |-> EmptyDict]
    /\ exc = [i \in Invocations |-> NoExc]
    /\ result = [i \in Invocations |-> EmptyDict]
    /\ stage_status = [i \in Invocations |->
                         [a \in {SubAgents[n] : n \in 1..Len(SubAgents)} |-> "notrun"]]
    /\ stage_input = [i \in Invocations |->
                         [a \in {SubAgents[n] : n \in 1..Len(SubAgents)} |-> EmptyDict]]
    /\ read_outcome = [i \in Invocations |-> "none yet"]
    /\ readback_outcome = [i \in Invocations |-> "none yet"]
    /\ mock_posts = InitialComments
    /\ next_comment_id = InitialNextCommentId
    /\ handler = [i \in Invocations |-> "idle"]
    /\ post_slug = [i \in Invocations |-> "none yet"]
    /\ new_comment_data = [i \in Invocations |-> NoComment]

\* ----------------------------------------------------------------- actions
\* the tail of run_comment_interaction: build the result and return it
Return(i, state_dict, message) ==
    /\ final_state_dict' = [final_state_dict EXCEPT ![i] = state_dict]
    /\ error_message' = [error_message EXCEPT ![i] = message]
    /\ result' = [result EXCEPT ![i] =
          PrepareResult(session_id[i], state_dict, final_response_text[i], message)]
    /\ pc' = [pc EXCEPT ![i] = "done"]

\* the handlers where the read-back's exception replaces the original one
RaiseMasking(i, site, e) ==
    LET h == ExceptTarget(site)
    IN CASE h = "create_except" ->
              /\ result' = [result EXCEPT ![i] =
                    [error |-> [msg |-> "Failed to create session", cause |-> e]]]
              /\ pc' = [pc EXCEPT ![i] = "done"]
              /\ UNCHANGED <<exc, error_message, final_state_dict>>
         [] h = "except" ->
              /\ exc' = [exc EXCEPT ![i] = e]
              /\ pc' = [pc EXCEPT ![i] = "except"]
              /\ UNCHANGED <<result, error_message, final_state_dict>>
         [] h = "readback_except" ->
              /\ Return(i, final_state_dict[i],
                        [msg |-> "Agent execution failed", cause |-> e])
              /\ UNCHANGED exc
         [] OTHER ->
              /\ pc' = [pc EXCEPT ![i] = "raised"]
              /\ UNCHANGED <<result, exc, error_message, final_state_dict>>

\* the exception e raised at `site` travels to its handler; with no handler
\* it leaves run_comment_interaction
Raise(i, site, e) ==
    LET h == ExceptTarget(site)
    IN CASE h = "create_except" ->
              /\ result' = [result EXCEPT ![i] =
                    [error |-> [msg |-> "Failed to create session", cause |-> e]]]
              /\ pc' = [pc EXCEPT ![i] = "done"]
              /\ UNCHANGED <<exc, error_message, final_state_dict>>
         [] h = "except" ->
              /\ exc' = [exc EXCEPT ![i] = e]
              /\ pc' = [pc EXCEPT ![i] = "except"]
              /\ UNCHANGED <<result, error_message, final_state_dict>>
         [] h = "readback_except" ->
              /\ Return(i, final_state_dict[i],
                        [msg |-> "Agent execution failed", cause |-> exc[i]])
              /\ UNCHANGED exc
         [] OTHER ->
              /\ pc' = [pc EXCEPT ![i] = "raised"]
              /\ UNCHANGED <<result, exc, error_message, final_state_dict>>

\* session_id = uuid4; session_service.create_session(...); Runner(...)
CreateSession(i) ==
    /\ pc[i] = "start"
    /\ \E id \in Uuid4(used_ids), ok \in BOOLEAN :
         /\ session_id' = [session_id EXCEPT ![i] = id]
         /\ used_ids' = used_ids \cup {id}
         /\ IF ok
              THEN /\ store' = [store EXCEPT
                          ![SessionKey(APP_NAME, USER_ID, id)] = NewSession]
                   /\ pc' = [pc EXCEPT ![i] = "run"]
                   /\ UNCHANGED <<result, locals>>
              ELSE /\ Raise(i, "create_session",
                            <<"SessionCreationError", "create_session">>)
                   /\ UNCHANGED <<store, final_response_text>>
    /\ UNCHANGED <<server, input, next_agent, history>>

\* a run that is started without its new_message
StartRunNoMessage(i) ==
    /\ pc[i] = "run"
    /\ pc' = [pc EXCEPT ![i] = "events"]
    /\ UNCHANGED <<server, input, used_ids, store, session_id, next_agent, result,
                   locals, history>>

\* runner.run(user_id, session_id, new_message): the run starts by appending
\* the user message to its session
StartRun(i) ==
    /\ pc[i] = "run"
    /\ LET key == SessionKey(APP_NAME, USER_ID, session_id[i])
           initial_message_content == JsonDumps(input[i])
       IN store' = [store EXCEPT ![key].messages = @ \cup {initial_message_content}]
    /\ pc' = [pc EXCEPT ![i] = "events"]
    /\ UNCHANGED <<server, input, used_ids, session_id, next_agent, result, locals, history>>

\* the SequentialAgent runs its next sub-agent on the session; the LlmAgent
\* commits its text under its output_key, and the event loop sees its events
RunStage(i) ==
    /\ pc[i] = "events"
    /\ next_agent[i] <= Len(SubAgents)
    /\ LET agent == SubAgents[next_agent[i]]
           key == SessionKey(APP_NAME, USER_ID, session_id[i])
       IN /\ stage_input' = [stage_input EXCEPT ![i][agent] = store[key].state]
          /\ \/ \E form \in Forms(agent), streamed \in BOOLEAN :
                  LET text == Generate(agent, store[key], form)
                  IN /\ store' = [store EXCEPT ![key].state =
                                     (OutputKey(agent) :> text) @@ @]
                     /\ final_response_text' = [final_response_text EXCEPT ![i] =
                            ProcessEvents(@, StageEvents(text, streamed))]
                     /\ stage_status' = [stage_status EXCEPT ![i][agent] = "ok"]
                     /\ next_agent' = [next_agent EXCEPT ![i] = @ + 1]
                     /\ UNCHANGED <<pc, result, error_message, final_state_dict, exc>>
             \/ /\ stage_status' = [stage_status EXCEPT ![i][agent] = "raised"]
                /\ Raise(i, "run", <<"GenerationError", agent>>)
                /\ UNCHANGED <<store, final_response_text, next_agent>>
    /\ UNCHANGED <<server, input, used_ids, session_id, read_outcome, readback_outcome>>

\* the events are exhausted: session_service.get_session(...) on the normal
\* path, then the result
FetchFinalState(i) ==
    /\ pc[i] = "events"
    /\ next_agent[i] > Len(SubAgents)
    /\ LET final_session == store[SessionKey(APP_NAME, USER_ID, session_id[i])]
       IN \/ /\ final_session.exists
             /\ read_outcome' = [read_outcome EXCEPT ![i] = "found"]
             /\ Return(i, final_session.state, error_message[i])
             /\ UNCHANGED exc
          \/ /\ read_outcome' = [read_outcome EXCEPT ![i] = "none"]
             /\ Return(i, final_state_dict[i],
                       [msg |-> "Failed to retrieve final session state.",
                        cause |-> NoExc])
             /\ UNCHANGED exc
          \/ /\ read_outcome' = [read_outcome EXCEPT ![i] = "raised"]
             /\ Raise(i, "get_session", <<"StateReadError", "get_session">>)
    /\ UNCHANGED <<server, input, used_ids, store, session_id, next_agent,
                   final_response_text, stage_status, stage_input, readback_outcome>>

\* except Exception as e: one more get_session, the error message, the result
ExceptReadBack(i) ==
    /\ pc[i] = "except"
    /\ LET final_session == store[SessionKey(APP_NAME, USER_ID, session_id[i])]
           failed == [msg |-> "Agent execution failed", cause |-> exc[i]]
       IN \/ /\ final_session.exists
             /\ readback_outcome' = [readback_outcome EXCEPT ![i] = "found"]
             /\ Return(i, final_session.state, failed)
             /\ UNCHANGED exc
          \/ /\ readback_outcome' = [readback_outcome EXCEPT ![i] = "none"]
             /\ Return(i, final_state_dict[i], failed)
             /\ UNCHANGED exc
          \/ /\ readback_outcome' = [readback_outcome EXCEPT ![i] = "raised"]
             /\ Raise(i, "readback", <<"StateReadbackError", "get_session">>)
    /\ UNCHANGED <<server, input, used_ids, store, session_id, next_agent,
                   final_response_text, stage_status, stage_input, read_outcome>>

Next ==
    \E i \in Invocations :
        \/ CreateSession(i)
        \/ StartRun(i)
        \/ RunStage(i)
        \/ FetchFinalState(i)
        \/ ExceptReadBack(i)

Spec == Init /\ [][Next]_vars

\* one step of invocation i
Step(i) ==
    \/ CreateSession(i)
    \/ StartRun(i)
    \/ RunStage(i)
    \/ FetchFinalState(i)
    \/ ExceptReadBack(i)

\* every call an invocation waits on (create_session, a stage's generation
\* call, get_session) eventually returns or fails, so an invocation that can
\* take a step eventually takes one
FairSpec == Spec /\ \A i \in Invocations : WF_vars(Step(i))

\* ------------------------------------------------------ main.py actions
\* request handlers that run side by side, as in a thread pool
LoopFreeAlways(busy) == TRUE

\* add_comment is a coroutine without an await: once the event loop has
\* started it, no other request handler runs until it has returned
LoopFree(busy) == busy = {}

\* the handlers that occupy the event loop
Busy == {j \in Invocations : handler[j] \in {"running", "stored"}}

\* add_comment, up to the call of run_comment_interaction: look the post up
\* (404 when it is missing) and prepare the context
AddCommentBegin(i) ==
    /\ handler[i] = "idle"
    /\ pc[i] = "start"
    /\ LoopFree(Busy)
    /\ \E slug \in RequestSlugs :
         /\ post_slug' = [post_slug EXCEPT ![i] = slug]
         /\ IF slug \in Slugs
              THEN /\ handler' = [handler EXCEPT ![i] = "running"]
                   /\ input' = [input EXCEPT ![i] =
                         InitialMessageData(input[i].comment, PostContext(slug),
                                            input[i].tone)]
              ELSE /\ handler' = [handler EXCEPT ![i] = "not found"]
                   /\ UNCHANGED input
    /\ UNCHANGED <<mock_posts, next_comment_id, new_comment_data, pc, used_ids,
                   store, session_id, next_agent, result, locals, history>>

\* run_comment_interaction, called by the handler
RunPipeline(i) ==
    /\ handler[i] = "running"
    /\ Step(i)

\* the result is back: choose the agent response, build the Comment with the
\* current next_comment_id and append it to the post
StoreComment(i) ==
    /\ handler[i] = "running"
    /\ pc[i] = "done"
    /\ LET agent_response_obj == AgentResponseFor(result[i], input[i].tone)
           comment == Comment(CommentId(next_comment_id), "Anonymous",
                              input[i].comment, agent_response_obj)
       IN /\ new_comment_data' = [new_comment_data EXCEPT ![i] = comment]
          /\ mock_posts' = [mock_posts EXCEPT ![post_slug[i]] = Append(@, comment)]
    /\ handler' = [handler EXCEPT ![i] = "stored"]
    /\ UNCHANGED <<next_comment_id, post_slug, input, pc, used_ids, store,
                   session_id, next_agent, result, locals, history>>

\* next_comment_id += 1; return new_comment_data.  The frame of
\* run_comment_interaction is gone; the session stays in the session service
IncrementAndReturn(i) ==
    /\ handler[i] = "stored"
    /\ next_comment_id' = next_comment_id + 1
    /\ handler' = [handler EXCEPT ![i] = "returned"]
    /\ pc' = [pc EXCEPT ![i] = "start"]
    /\ session_id' = [session_id EXCEPT ![i] = 0]
    /\ next_agent' = [next_agent EXCEPT ![i] = 1]
    /\ final_response_text' = [final_response_text EXCEPT ![i] = None]
    /\ error_message' = [error_message EXCEPT ![i] = NoError]
    /\ final_state_dict' = [final_state_dict EXCEPT ![i] = EmptyDict]
    /\ exc' = [exc EXCEPT ![i] = NoExc]
    /\ result' = [result EXCEPT ![i] = EmptyDict]
    /\ stage_status' = [stage_status EXCEPT ![i] =
                           [a \in DOMAIN stage_status[i] |-> "notrun"]]
    /\ stage_input' = [stage_input EXCEPT ![i] =
                           [a \in DOMAIN stage_input[i] |-> EmptyDict]]
    /\ read_outcome' = [read_outcome EXCEPT ![i] = "none yet"]
    /\ readback_outcome' = [readback_outcome EXCEPT ![i] = "none yet"]
    /\ UNCHANGED <<mock_posts, post_slug, new_comment_data, input, used_ids, store>>

ServerNext ==
    \E i \in Invocations :
        \/ AddCommentBegin(i)
        \/ RunPipeline(i)
        \/ StoreComment(i)
        \/ IncrementAndReturn(i)

\* the web server: the requests are handled by add_comment
ServerSpec == Init /\ [][ServerNext]_vars

\* ------------------------------------------------------------ vocabulary
ResultFields == {"session_id", "final_state", "final_response", "error"}

Returned(i) == pc[i] = "done"

\* the invocation got past create_session, so its result has every field
ReturnedFull(i) == pc[i] = "done" /\ DOMAIN result[i] = ResultFields

Ran(i, agent) == stage_status[i][agent] # "notrun"
Succeeded(i, agent) == stage_status[i][agent] = "ok"
Failed(i, agent) == stage_status[i][agent] = "raised"

AllSucceeded(i) == \A n \in 1..3 :
    Succeeded(i, <<"StateSetup", "CommentAnalyzer", "CommentResponder">>[n])

\* the state the session service holds for the invocation's session
Committed(i) == store[<<APP_NAME, USER_ID, session_id[i]>>].state

ExecutionFailure(i, agent) ==
    [msg |-> "Agent execution failed", cause |-> <<"GenerationError", agent>>]

\* ---------------------------------------------------------------- claims
\* C1: whenever an invocation has returned after its Analyzer stage raised,
\* its Responder stage never ran and the result's final_response is None,
\* also when the Setup stage had emitted a final-response event.
C1_FailFast ==
    \A i \in Invocations :
        (Returned(i) /\ Failed(i, "CommentAnalyzer"))
            => /\ ~Ran(i, "CommentResponder")
               /\ result[i].final_response = None

\* C2: under every combination of faults (create_session, a stage, the state
\* read after the run, the read-back in the handler) no exception leaves
\* run_comment_interaction: an invocation is never in the position "raised",
\* and one whose read-back raised has returned a result carrying an error.
C2_NoFaultEscapes ==
    \A i \in Invocations :
        /\ pc[i] # "raised"
        /\ readback_outcome[i] = "raised"
              => (Returned(i) /\ result[i].error # NoError)
        /\ Returned(i) => "error" \in DOMAIN result[i]

\* an invocation returned although both state reads raised, and another
\* returned after create_session failed
C2_Witness ==
    \E i, j \in Invocations :
        /\ Returned(i) /\ read_outcome[i] = "raised" /\ readback_outcome[i] = "raised"
        /\ Returned(j) /\ DOMAIN result[j] = {"error"}

\* C3: every returned value, also the one returned when create_session
\* fails, carries the four fields session_id, final_state, final_response
\* and error.
C3_WellFormedResult ==
    \A i \in Invocations : Returned(i) => DOMAIN result[i] = ResultFields

\* C4: for two invocations a and b with distinct inputs running concurrently
\* over the shared session_service, every value in a's final_state derives
\* from a's own message only; none originates from b's seed or from a stage
\* of b.
C4_Isolation ==
    \A a, b \in Invocations :
        (a # b /\ input[a] # input[b] /\ ReturnedFull(a))
            => \A k \in DOMAIN result[a].final_state :
                  /\ JsonDumps(input[b]) \notin result[a].final_state[k].origin
                  /\ result[a].final_state[k].origin \subseteq {JsonDumps(input[a])}

\* two invocations with distinct inputs have both returned a complete state
C4_Witness ==
    \E a, b \in Invocations :
        /\ a # b /\ input[a] # input[b]
        /\ ReturnedFull(a) /\ ReturnedFull(b)
        /\ DOMAIN result[a].final_state = {"initial_data", "analysis", "final_response"}
        /\ DOMAIN result[b].final_state = {"initial_data", "analysis", "final_response"}

\* C5: whenever the Analyzer stage has started, the state it started on held
\* the Setup stage's output under initial_data; whenever the Responder stage
\* has started, the state it started on held both the Setup output and the
\* Analyzer output under analysis.
C5_Ordering ==
    \A i \in Invocations :
        /\ Ran(i, "CommentAnalyzer")
              => /\ "initial_data" \in DOMAIN stage_input[i]["CommentAnalyzer"]
                 /\ stage_input[i]["CommentAnalyzer"]["initial_data"].by = "StateSetup"
        /\ Ran(i, "CommentResponder")
              => /\ {"initial_data", "analysis"}
                        \subseteq DOMAIN stage_input[i]["CommentResponder"]
                 /\ stage_input[i]["CommentResponder"]["initial_data"].by = "StateSetup"
                 /\ stage_input[i]["CommentResponder"]["analysis"].by = "CommentAnalyzer"

\* an invocation whose Responder stage has run
C5_Witness == \E i \in Invocations : Succeeded(i, "CommentResponder")

C7_PartialState ==
    \A i \in Invocations :
        (Returned(i) /\ Succeeded(i, "StateSetup") /\ Failed(i, "CommentAnalyzer"))
            => /\ result[i].error = ExecutionFailure(i, "CommentAnalyzer")
               /\ "initial_data" \in DOMAIN result[i].final_state
               /\ "analysis" \notin DOMAIN result[i].final_state
               /\ "final_response" \notin DOMAIN result[i].final_state

\* C7 (amended): when Setup succeeded and the Analyzer raised, the error
\* reports the execution failure; if the read-back returned the session,
\* final_state holds exactly the Setup output under initial_data (neither
\* analysis nor final_response); if the read-back raised or returned no
\* session, final_state is empty.
C7_PartialStateAmended ==
    \A i \in Invocations :
        (Returned(i) /\ Succeeded(i, "StateSetup") /\ Failed(i, "CommentAnalyzer"))
            => /\ result[i].error = ExecutionFailure(i, "CommentAnalyzer")
               /\ readback_outcome[i] = "found"
                     => /\ DOMAIN result[i].final_state = {"initial_data"}
                        /\ result[i].final_state["initial_data"].by = "StateSetup"
               /\ readback_outcome[i] # "found"
                     => result[i].final_state = EmptyDict

\* the Analyzer raised after a successful Setup and the read-back found the
\* session
C7_Witness ==
    \E i \in Invocations :
        /\ Returned(i) /\ Succeeded(i, "StateSetup") /\ Failed(i, "CommentAnalyzer")
        /\ readback_outcome[i] = "found"

\* C8: when the Setup stage's backend returned malformed (non-JSON) output,
\* neither the Analyzer nor the Responder ran, the error is not None and the
\* final_response is None.
C8_SetupParseHardFailure ==
    \A i \in Invocations :
        (Returned(i) /\ Succeeded(i, "StateSetup")
                     /\ Committed(i)["initial_data"].form = "malformed")
            => /\ ~Ran(i, "CommentAnalyzer")
               /\ ~Ran(i, "CommentResponder")
               /\ result[i].error # NoError
               /\ result[i].final_response = None

\* C9: the result's final_response is the value under final_response in the
\* final state when that key is present; otherwise it is the text the
\* Responder emitted, never the text of an earlier stage; and None when the
\* Responder emitted nothing usable.
C9_ExtractionPrecedence ==
    \A i \in Invocations :
        ReturnedFull(i)
            => IF "final_response" \in DOMAIN result[i].final_state
                 THEN result[i].final_response = result[i].final_state["final_response"]
                 ELSE IF Succeeded(i, "CommentResponder")
                             /\ Truthy(final_response_text[i])
                        THEN /\ result[i].final_response = final_response_text[i]
                             /\ result[i].final_response.by = "CommentResponder"
                        ELSE result[i].final_response = None

\* C10 (as stated): when the run completed without raising and no
\* final_response key was found for the session (the read returning no
\* session included), final_response is None and the error is None.
C10_ExtractionMissSoft ==
    \A i \in Invocations :
        (ReturnedFull(i) /\ AllSucceeded(i)
             /\ read_outcome[i] \in {"found", "none"}
             /\ "final_response" \notin DOMAIN result[i].final_state)
            => /\ result[i].final_response = None
               /\ result[i].error = NoError

\* C10 (amended): when the run completed without raising and the state read
\* returned no session, final_state is empty, the error is "Failed to
\* retrieve final session state." and final_response is the text of the last
\* final-response event (None only when that text is empty); when the read
\* returned the session the error is None.
C10_ExtractionMissAmended ==
    \A i \in Invocations :
        /\ (ReturnedFull(i) /\ AllSucceeded(i) /\ read_outcome[i] = "none")
              => /\ result[i].final_state = EmptyDict
                 /\ result[i].error.msg = "Failed to retrieve final session state."
                 /\ result[i].final_response =
                       (IF Truthy(final_response_text[i])
                          THEN final_response_text[i] ELSE None)
                 /\ final_response_text[i] = Committed(i)["final_response"]
        /\ (ReturnedFull(i) /\ AllSucceeded(i) /\ read_outcome[i] = "found")
              => result[i].error = NoError

\* the run completed, the state read returned no session, and the result
\* carries the Responder's event text
C10_Witness ==
    \E i \in Invocations :
        /\ ReturnedFull(i) /\ AllSucceeded(i) /\ read_outcome[i] = "none"
        /\ result[i].final_response.by = "CommentResponder"

\* an upper bound on the steps invocation i can still take
StepsLeft(i) ==
    CASE pc[i] = "start" -> 7
      [] pc[i] = "run" -> 6
      [] pc[i] = "events" -> 6 - next_agent[i]
      [] pc[i] = "except" -> 1
      [] pc[i] = "done" -> 0
      [] OTHER -> 0

\* C11: every invocation reaches its terminal position and returns its
\* result, provided every call it waits on returns or fails: an invocation
\* that has not returned can always take a step (it is never stuck in a
\* non-terminal position), and every step it takes lowers the number of steps
\* it has left, so it returns after at most seven steps.
C11_Termination ==
    /\ [](\A i \in Invocations :
            /\ pc[i] # "done" => ENABLED Step(i)
            /\ pc[i] = "done" => "error" \in DOMAIN result[i])
    /\ [][\A i \in Invocations :
            Step(i) => /\ StepsLeft(i)' < StepsLeft(i)
                       /\ StepsLeft(i)' >= 0]_vars

\* C11, in its temporal form under the fairness of FairSpec: every
\* invocation eventually has returned its result.
C11_EventuallyReturns ==
    \A i \in Invocations : <>(Returned(i) /\ "error" \in DOMAIN result[i])

\* every invocation has returned, one of them after a stage raised
C11_Witness ==
    /\ \A i \in Invocations : Returned(i)
    /\ \E i \in Invocations, n \in 1..3 :
          Failed(i, <<"StateSetup", "CommentAnalyzer", "CommentResponder">>[n])

\* the state of invocation i in the per-invocation state machine, read off
\* the stages that have run: an invocation without a session has not entered
\* the machine; one whose stages all succeeded is RESPONDED until it returns
\* its result
Phase(i) ==
    LET StatusOf(a) == IF a \in DOMAIN stage_status[i]
                         THEN stage_status[i][a] ELSE "notrun"
        setup == StatusOf("StateSetup")
        analyzer == StatusOf("CommentAnalyzer")
        responder == StatusOf("CommentResponder")
    IN CASE pc[i] = "start" \/ (pc[i] = "done" /\ DOMAIN result[i] = {"error"})
               -> "NOT_CREATED"
         [] \E a \in DOMAIN stage_status[i] : stage_status[i][a] = "raised"
               -> IF /\ analyzer = "notrun" \/ setup = "ok"
                     /\ responder = "notrun" \/ analyzer = "ok"
                    THEN "FAILED" ELSE "INVALID"
         [] <<setup, analyzer, responder>> = <<"notrun", "notrun", "notrun">>
               -> "CREATED"
         [] <<setup, analyzer, responder>> = <<"ok", "notrun", "notrun">>
               -> "SETUP_DONE"
         [] <<setup, analyzer, responder>> = <<"ok", "ok", "notrun">>
               -> "ANALYZED"
         [] <<setup, analyzer, responder>> = <<"ok", "ok", "ok">>
               -> IF pc[i] = "done" THEN "EXTRACTED" ELSE "RESPONDED"
         [] OTHER -> "INVALID"

ForwardTransitions ==
    {<<"NOT_CREATED", "CREATED">>, <<"CREATED", "SETUP_DONE">>,
     <<"SETUP_DONE", "ANALYZED">>, <<"ANALYZED", "RESPONDED">>,
     <<"RESPONDED", "EXTRACTED">>}

NonTerminal == {"CREATED", "SETUP_DONE", "ANALYZED", "RESPONDED"}

\* C12: every step moves an invocation along CREATED -> SETUP_DONE ->
\* ANALYZED -> RESPONDED -> EXTRACTED by one state, or from a non-terminal
\* state to FAILED in a step in which a stage raised, or leaves its state
\* alone; no stage is skipped, a stage that has run never runs again, and
\* nothing leaves EXTRACTED or FAILED.
C12_StateMachine ==
    [][\A i \in Invocations :
         /\ Phase(i) # "INVALID" /\ Phase(i)' # "INVALID"
         /\ \/ Phase(i)' = Phase(i)
            \/ <<Phase(i), Phase(i)'>> \in ForwardTransitions
            \/ /\ Phase(i) \in NonTerminal /\ Phase(i)' = "FAILED"
               /\ \E a \in DOMAIN stage_status[i] :
                     stage_status[i][a] = "notrun" /\ stage_status[i][a]' = "raised"
         /\ \A a \in DOMAIN stage_status[i] :
               stage_status[i][a] # "notrun"
                  => /\ stage_status[i][a]' = stage_status[i][a]
                     /\ stage_input[i][a]' = stage_input[i][a]
         /\ next_agent[i]' \in {next_agent[i], next_agent[i] + 1}]_vars

\* one invocation is EXTRACTED while another is FAILED
C12_Witness ==
    \E i, j \in Invocations : Phase(i) = "EXTRACTED" /\ Phase(j) = "FAILED"

\* create_session failed for invocation i: it has an identifier but the
\* session service holds no session under it
CreateFailed(i) ==
    /\ session_id[i] # 0
    /\ ~store[<<APP_NAME, USER_ID, session_id[i]>>].exists

\* C13: when create_session fails, run_comment_interaction has returned an
\* error result naming the creation failure at once: no stage has run, no run
\* was started, no session state was read (neither after a run nor in the
\* handler) and nothing was written under the session identifier.
C13_CreationFailureAborts ==
    \A i \in Invocations :
        CreateFailed(i)
            => /\ Returned(i)
               /\ result[i] = [error |-> [msg |-> "Failed to create session",
                                          cause |-> <<"SessionCreationError",
                                                      "create_session">>]]
               /\ \A a \in DOMAIN stage_status[i] : stage_status[i][a] = "notrun"
               /\ next_agent[i] = 1
               /\ read_outcome[i] = "none yet"
               /\ readback_outcome[i] = "none yet"
               /\ store[<<APP_NAME, USER_ID, session_id[i]>>] = NoSession
               /\ final_state_dict[i] = EmptyDict

\* one invocation returned after create_session failed while another one,
\* whose session was created, ran its stages
C13_Witness ==
    \E i, j \in Invocations :
        /\ CreateFailed(i) /\ Returned(i)
        /\ Succeeded(j, "CommentResponder")

\* the failure that sent invocation i into the handler: the stage that
\* raised, or else the state read after the run
OriginalFailure(i) ==
    IF \E a \in DOMAIN stage_status[i] : stage_status[i][a] = "raised"
      THEN <<"GenerationError",
             CHOOSE a \in DOMAIN stage_status[i] : stage_status[i][a] = "raised">>
      ELSE <<"StateReadError", "get_session">>

\* C14: when the run raised and the read-back in the handler raised too, the
\* result's error still reports the original failure ("Agent execution
\* failed" with the original exception, not the read-back's) and final_state
\* is empty.
C14_ReadBackDoesNotMask ==
    \A i \in Invocations :
        (Returned(i) /\ readback_outcome[i] = "raised")
            => /\ result[i].error =
                     [msg |-> "Agent execution failed", cause |-> OriginalFailure(i)]
               /\ result[i].error.cause # <<"StateReadbackError", "get_session">>
               /\ result[i].final_state = EmptyDict

\* the Analyzer raised after Setup had committed its output, and the
\* read-back raised as well
C14_Witness ==
    \E i \in Invocations :
        /\ Returned(i) /\ readback_outcome[i] = "raised"
        /\ Failed(i, "CommentAnalyzer")
        /\ "initial_data" \in DOMAIN Committed(i)

\* C15: once an invocation whose session was created has returned (with or
\* without an error), every step of the system leaves its session in the
\* session service with the same state, so a state read before the step and
\* one after it return the same state; the state the invocation itself read
\* is the state a later read returns; and the steps that read a session's
\* state leave the session service unchanged.
C15_IdempotentRead ==
    [][/\ \A i \in Invocations :
            ReturnedFull(i)
               => LET first == GetSession(store, APP_NAME, USER_ID, session_id[i])
                      second == GetSession(store', APP_NAME, USER_ID, session_id[i])
                  IN /\ first.found
                     /\ second = first
                     /\ (read_outcome[i] = "found" \/ readback_outcome[i] = "found")
                           => result[i].final_state = second.state
       /\ (read_outcome' # read_outcome \/ readback_outcome' # readback_outcome)
             => store' = store]_vars

\* an invocation has returned the state it read while another invocation is
\* still writing stage outputs into the session service
C15_Witness ==
    \E i, j \in Invocations :
        /\ ReturnedFull(i) /\ read_outcome[i] = "found"
        /\ pc[j] = "events" /\ next_agent[j] = 2

\* the serialised seed payload of invocation i
Seed(i) == JsonDumps(input[i])

\* C16 (as stated): when the Setup stage has started, the session state it
\* started on already held the seed payload under some initial key.
C16_SeededBeforeSetup ==
    \A i \in Invocations :
        Ran(i, "StateSetup")
            => \E k \in DOMAIN stage_input[i]["StateSetup"] :
                  Seed(i) \in stage_input[i]["StateSetup"][k].origin

\* C16 (amended): in the step in which the Setup stage starts, the session
\* already holds the seed payload as one serialised value, as the user message
\* of the run, while the session state is still empty; the payload first
\* enters the state under initial_data when the Setup stage commits its
\* output.
C16_SeededByMessage ==
    [][\A i \in Invocations :
         (~Ran(i, "StateSetup") /\ Ran(i, "StateSetup")')
            => LET key == SessionKey(APP_NAME, USER_ID, session_id[i])
               IN /\ store[key].messages = {Seed(i)}
                  /\ store[key].state = EmptyDict
                  /\ stage_input[i]["StateSetup"]' = EmptyDict
                  /\ Succeeded(i, "StateSetup")'
                        => /\ DOMAIN store[key].state' = {"initial_data"}
                           /\ store[key].state'["initial_data"].origin = {Seed(i)}]_vars

\* the Setup stage of an invocation has run and committed initial_data
C16_Witness ==
    \E i \in Invocations :
        /\ Succeeded(i, "StateSetup")
        /\ "initial_data" \in DOMAIN Committed(i)

\* the places (post, position) of the stored comments
StoredComments ==
    {<<slug, n>> \in Slugs \X (1..(3 + NumInv)) : n <= Len(mock_posts[slug])}

\* the stored comments that carry the text of request i
CommentsOf(i) ==
    {p \in StoredComments : mock_posts[p[1]][p[2]].text = input[i].comment}

\* the pipeline result of request i has no error and a non-empty response
Usable(agent_result) ==
    /\ DictGet(agent_result, "error") \in {None, NoError}
    /\ DictGet(agent_result, "final_response") # None
    /\ DictGet(agent_result, "final_response").form # "empty"

\* C17: for every add_comment request on an existing post, the stored
\* comment carries an agent_response exactly when the pipeline result has no
\* error and a non-empty final_response (a result with an error and a
\* non-null final_response gives a comment without response); the comment is
\* stored exactly once whatever the pipeline returned, and not before the
\* pipeline has returned.
C17_CallerGating ==
    \A i \in Invocations :
        /\ handler[i] \in {"idle", "running", "not found"} => CommentsOf(i) = {}
        /\ handler[i] \in {"stored", "returned"}
              => /\ Cardinality(CommentsOf(i)) = 1
                 /\ \A p \in CommentsOf(i) :
                       p[1] = post_slug[i] /\ mock_posts[p[1]][p[2]] = new_comment_data[i]
        /\ handler[i] = "stored"
              => /\ new_comment_data[i].agent_response # NoAgentResponse
                       <=> Usable(result[i])
                 /\ Usable(result[i])
                       => new_comment_data[i].agent_response =
                             AgentResponse(input[i].tone, result[i].final_response)

\* a comment was stored without response although the pipeline result
\* carries a non-null final_response next to its error
C17_Witness ==
    \E i \in Invocations :
        /\ handler[i] = "stored"
        /\ ReturnedFull(i)
        /\ result[i].error # NoError
        /\ Truthy(result[i].final_response)
        /\ new_comment_data[i].agent_response = NoAgentResponse

\* C18: the stored comments have pairwise distinct ids, and next_comment_id
\* is 4 plus the number of comments added, less the handlers that have
\* appended their comment and are about to increment the counter: no
\* read-increment of the counter is lost or duplicated.
C18_CommentIds ==
    /\ \A p, q \in StoredComments :
          p # q => mock_posts[p[1]][p[2]].id # mock_posts[q[1]][q[2]].id
    /\ next_comment_id =
          4 + (Cardinality(StoredComments) - 3)
            - Cardinality({i \in Invocations : handler[i] = "stored"})

\* two requests have been handled and have stored the comments c4 and c5
C18_Witness ==
    /\ \E i, j \in Invocations :
          i # j /\ handler[i] = "returned" /\ handler[j] = "returned"
    /\ next_comment_id = 6
    /\ {mock_posts[p[1]][p[2]].id : p \in StoredComments}
          = {CommentId(n) : n \in 1..5}

====
